---- MODULE Spec2Model ----
(***************************************************************************)
(* Model of DingTalkStreamClient (src/dingtalk_stream/stream.py): the      *)
(* reconnect supervisor (start_forever / start), the connection negotiator *)
(* (open_connection), the per-frame dispatch units (background_task /      *)
(* route_message) and the handler registry.                                *)
(*                                                                         *)
(* The main task start() runs on one asyncio event loop together with the  *)
(* dispatch units it spawns.  A dispatch unit can only take a step while   *)
(* the main task is suspended at an await (websockets.connect, the         *)
(* `async for` over the socket); open_connection() and time.sleep(10) in   *)
(* start() are blocking calls and hold the loop.  When start() leaves by   *)
(* an exception, asyncio.run() cancels every unit still pending.           *)
(***************************************************************************)
EXTENDS Integers, Sequences, FiniteSets

\* ---------------------------------------------------------------- bounds
MaxFrames == 2
MaxSessions == 2
MaxRegs == 1
MaxNow == 4
MaxFetches == 2

\* ------------------------------------------------------------- constants
TAG_DISCONNECT == "disconnect"
TOPIC_DISCONNECT == "disconnect"
SYSTEM_TYPE == "SYSTEM"
EVENT_TYPE == "EVENT"
CALLBACK_TYPE == "CALLBACK"
NegotiationDelay == 10
NetworkDelay == 10
UnknownDelay == 3

\* result['expireIn'] - (5 * 60): the cache expires five minutes early.
ExpiryMargin == 300

NoHandler == "none"
SystemHandler == "system"
DefaultEventHandler == "event0"
UserEventHandler == "event1"
CallbackHandlers == {"cb1"}
\* A second handler instance, for registrations that replace an earlier one.
RegistryHandlers == CallbackHandlers \cup {"cb2"}
AllHandlers == {SystemHandler, DefaultEventHandler, UserEventHandler} \cup RegistryHandlers

CallbackTopics == {"chat"}
Topics == {TOPIC_DISCONNECT, "chat"}

\* Raw inbound frames the gateway can deliver.  form: "garbage" is text that
\* is not JSON, "nonobject" is JSON that is not an object, "object" is a JSON
\* object; wellformed says whether <Kind>Message.from_dict accepts it.
Frame(form, type, topic, wf) == [form |-> form, type |-> type, topic |-> topic, wellformed |-> wf]
RawFrames ==
    {Frame("garbage", "", "", FALSE), Frame("nonobject", "", "", FALSE),
     Frame("object", "OTHER", "chat", TRUE),
     Frame("object", SYSTEM_TYPE, TOPIC_DISCONNECT, TRUE), Frame("object", SYSTEM_TYPE, "chat", TRUE),
     Frame("object", EVENT_TYPE, TOPIC_DISCONNECT, TRUE),
     Frame("object", CALLBACK_TYPE, "chat", TRUE),
     Frame("object", CALLBACK_TYPE, "chat", FALSE)}

\* Well-formed CALLBACK frames, one per topic.
CallbackFrames == {Frame("object", CALLBACK_TYPE, t, TRUE) : t \in Topics}

\* What open_connection meets: no local socket can be created (get_host_ip),
\* the POST fails in transport, or the gateway answers with a status and a body.
Responses == {"transport_error", "http_500", "malformed_body", "no_endpoint", "no_socket", "ok"}

\* What the token endpoint answers: an HTTP error (raise_for_status fails), a
\* body that is not the JSON expected, or a token with its lifetime in seconds.
ExpireIns == {299, 301, 302}
TokenResponses ==
    {[kind |-> "http_error", expireIn |-> 0], [kind |-> "malformed", expireIn |-> 0]}
        \cup {[kind |-> "ok", expireIn |-> e] : e \in ExpireIns}
\* Seconds the POST to the token endpoint takes.
Latencies == {0, 1}
\* HTTP status of the media upload.
UploadStatuses == {200, 401, 500}

VARIABLES
    pc,                   \* position of start_forever / start
    websocket,            \* self.websocket: session id, 0 = None
    sessions,             \* session id -> "none" | "open" | "closed" | "aborted"
    tasks,                \* frame id -> dispatch unit (asyncio task)
    nframes,              \* frames received so far (frame id = message id)
    sent,                 \* outbound frames written, in order
    connection,           \* start()'s local `connection`: what open_connection met and gave back
    waited,               \* delay slept on the way to the next open_connection call
    cause,                \* why the Supervisor is on its way to negotiate again
    interrupt,            \* SIGINT: "none", "pending" (asyncio.run's handler cancelled the main
                          \* task, not yet delivered) or "raised" (KeyboardInterrupt was raised)
    callback_handler_map, \* self.callback_handler_map: topic -> handler, NoHandler = absent
    event_handler,        \* self.event_handler
    is_event_required,    \* self._is_event_required
    pre_started,          \* self._pre_started
    prestarts,            \* handler -> number of pre_start() calls it received
    nregs,                \* register_* calls made (bounded by MaxRegs)
    now,                  \* int(time.time())
    access_token,         \* self._access_token: NoToken = {}
    nfetch,               \* tokens the token endpoint has issued (token n is the n-th one)
    token_call            \* the last call of the token functions and what it gave back

vars == <<pc, websocket, sessions, tasks, nframes, sent, connection, waited, cause,
          interrupt, callback_handler_map, event_handler, is_event_required,
          pre_started, prestarts, nregs, now, access_token, nfetch, token_call>>

supVars == <<pc, websocket, sessions, connection, waited, cause, interrupt>>
regVars == <<callback_handler_map, event_handler, is_event_required, nregs>>
preVars == <<pre_started, prestarts>>
taskVars == <<tasks, nframes, sent>>
tokVars == <<now, access_token, nfetch, token_call>>
streamVars == <<supVars, regVars, preVars, taskVars>>

FrameIds == 1..MaxFrames
SessionIds == 1..MaxSessions

NoFrame == Frame("none", "", "", FALSE)
NoTask == [frame |-> NoFrame, sess |-> 0, pc |-> "none", handler |-> NoHandler,
           ack |-> 0, result |-> "", fault |-> FALSE, closed |-> 0]

NoConnection == [resp |-> "none", raised |-> FALSE, value |-> "unset"]

\* self._access_token = {}
NoToken == [accessToken |-> 0, expireIn |-> 0, expireTime |-> 0, fetched_at |-> 0]
NoCall == [op |-> "none", at |-> 0, fetched |-> FALSE, returned |-> 0, status |-> 0]

\* DingTalkStreamClient.__init__
Init ==
    /\ pc = "idle"
    /\ websocket = 0
    /\ sessions = [s \in SessionIds |-> "none"]
    /\ tasks = [f \in FrameIds |-> NoTask]
    /\ nframes = 0
    /\ sent = <<>>
    /\ connection = NoConnection
    /\ waited = 0
    /\ cause = "start"
    /\ interrupt = "none"
    /\ callback_handler_map = [t \in Topics |-> NoHandler]
    /\ event_handler = DefaultEventHandler
    /\ is_event_required = FALSE
    /\ pre_started = FALSE
    /\ prestarts = [h \in AllHandlers |-> 0]
    /\ nregs = 0
    /\ now = 0
    /\ access_token = NoToken
    /\ nfetch = 0
    /\ token_call = NoCall

\* ----------------------------------------------------------- registration
\* Mutant of register_callback_handler: a topic keeps the handler it already has.
register_callback_handler_first_wins(topic, handler) ==
    /\ pc = "idle"
    /\ nregs < MaxRegs
    /\ callback_handler_map' =
          IF callback_handler_map[topic] = NoHandler
          THEN [callback_handler_map EXCEPT ![topic] = handler]
          ELSE callback_handler_map
    /\ nregs' = nregs + 1
    /\ UNCHANGED <<supVars, taskVars, preVars, event_handler, is_event_required>>
    /\ UNCHANGED tokVars

register_all_event_handler ==
    /\ pc = "idle"
    /\ nregs < MaxRegs
    /\ event_handler' = UserEventHandler
    /\ is_event_required' = TRUE
    /\ nregs' = nregs + 1
    /\ UNCHANGED <<supVars, taskVars, preVars, callback_handler_map>>
    /\ UNCHANGED tokVars

register_callback_handler(topic, handler) ==
    /\ pc = "idle"
    /\ nregs < MaxRegs
    /\ callback_handler_map' = [callback_handler_map EXCEPT ![topic] = handler]
    /\ nregs' = nregs + 1
    /\ UNCHANGED <<supVars, taskVars, preVars, event_handler, is_event_required>>
    /\ UNCHANGED tokVars

\* ------------------------------------------------------------- supervisor
\* start_forever entered: the try block is about to call asyncio.run(self.start()).
start_forever ==
    /\ pc = "idle"
    /\ pc' = "starting"
    /\ UNCHANGED <<websocket, sessions, connection, waited, cause, interrupt,
                   taskVars, regVars, preVars>>
    /\ UNCHANGED tokVars

\* The handlers pre_start() reaches: event handler, system handler, every registered callback handler.
PreStartTargets ==
    ({event_handler, SystemHandler} \cup {callback_handler_map[t] : t \in Topics}) \ {NoHandler}

\* The pre_start() calls one run of the body makes on handler h: one as the
\* event handler, one as the system handler, and one for every entry of
\* callback_handler_map.values() that is h.
PreStartCalls(h) ==
    (IF h = event_handler THEN 1 ELSE 0) + (IF h = SystemHandler THEN 1 ELSE 0)
        + Cardinality({t \in Topics : callback_handler_map[t] = h})

\* pre_start(): guarded by the _pre_started flag.
pre_start_effect ==
    IF pre_started
    THEN UNCHANGED preVars
    ELSE /\ pre_started' = TRUE
         /\ prestarts' = [h \in AllHandlers |-> prestarts[h] + PreStartCalls(h)]

\* pre_start() called by the application itself, before start_forever.
pre_start ==
    /\ pc = "idle"
    /\ pre_start_effect
    /\ UNCHANGED <<supVars, taskVars, regVars, tokVars>>

\* start(): self.pre_start(), then the while loop is entered.
start ==
    /\ pc = "starting"
    /\ pre_start_effect
    /\ pc' = "negotiating"
    /\ UNCHANGED <<websocket, sessions, connection, waited, cause, interrupt,
                   taskVars, regVars>>
    /\ UNCHANGED tokVars

\* get_host_ip(): `finally: s.close(); return ip` swallows a failing connect,
\* but when socket.socket() itself raises, s is unbound and s.close() raises.
get_host_ip(resp) ==
    IF resp = "no_socket" THEN [raised |-> TRUE, ip |-> ""] ELSE [raised |-> FALSE, ip |-> "ip"]

\* open_connection(): requests.post and raise_for_status are inside the try,
\* get_host_ip() (request body) and response.json() are outside it.
open_connection(resp) ==
    IF get_host_ip(resp).raised THEN [resp |-> resp, raised |-> TRUE, value |-> "unset"]
    ELSE IF resp \in {"transport_error", "http_500"} THEN [resp |-> resp, raised |-> FALSE, value |-> "None"]
    ELSE IF resp = "malformed_body" THEN [resp |-> resp, raised |-> TRUE, value |-> "unset"]
    ELSE IF resp = "no_endpoint" THEN [resp |-> resp, raised |-> FALSE, value |-> "no_endpoint"]
    ELSE [resp |-> resp, raised |-> FALSE, value |-> "connection"]

\* asyncio.run() teardown when start() leaves by an exception: pending units are cancelled.
CancelAll(ts) ==
    [f \in FrameIds |-> IF ts[f].pc \in {"created", "handling", "close"}
                        THEN [ts[f] EXCEPT !.pc = "cancelled"] ELSE ts[f]]

\* Mutant of ExitedSessions: the socket is left as it is when the block is left.
ExitedSessions_leaks == sessions

\* `async with` exit: the session's socket is closed when the block is left.
ExitedSessions ==
    [s \in SessionIds |-> IF sessions[s] \in {"open", "aborted"} THEN "closed" ELSE sessions[s]]

\* Mutant of Backoff: every exception takes the short sleep.
Backoff_always_short(kind) == "sleep_unk"

\* start_forever's handlers: the exception class chooses the sleep.
Backoff(kind) == IF kind = "network" THEN "sleep_net" ELSE "sleep_unk"

\* start() left by an exception while the loop was running: the `async with`
\* closes the socket, asyncio.run() cancels the pending units and re-raises
\* into start_forever, whose except clause picks the sleep.  A cancellation
\* requested by asyncio.run's SIGINT handler but not yet delivered is dropped
\* with the finished main task.
start_raises(kind, ts) ==
    /\ pc' = Backoff(kind)
    /\ cause' = kind
    /\ waited' = 0
    /\ sessions' = ExitedSessions
    /\ tasks' = CancelAll(ts)
    /\ interrupt' = "none"

\* `connection = self.open_connection()` in the while loop of start().
negotiate ==
    /\ pc = "negotiating"
    /\ \E resp \in Responses : connection' = open_connection(resp)
    /\ pc' = "opened"
    /\ cause' = "none"
    /\ waited' = 0
    /\ UNCHANGED <<websocket, sessions, interrupt, taskVars, regVars, preVars>>
    /\ UNCHANGED tokVars

\* What start() does with the outcome: an exception leaves start();
\* `if not connection:` logs and sleeps; uri = ... connection['endpoint'] ...
\* raises KeyError when the body carries no endpoint; else the socket is connected.
after_open_connection ==
    /\ pc = "opened"
    /\ connection' = NoConnection
    /\ IF connection.raised \/ connection.value = "no_endpoint"
       THEN start_raises("unknown", tasks)
       ELSE IF connection.value = "None"
       THEN /\ pc' = "sleep_neg"
            /\ cause' = "negfail"
            /\ waited' = 0
            /\ UNCHANGED <<sessions, tasks, interrupt>>
       ELSE /\ pc' = "connecting"
            /\ UNCHANGED <<cause, waited, sessions, tasks, interrupt>>
    /\ UNCHANGED <<websocket, nframes, sent, regVars, preVars>>
    /\ UNCHANGED tokVars

\* Mutant of sleep_after_negotiation: the failure is not retried, start() returns.
sleep_after_negotiation_gives_up ==
    /\ pc = "sleep_neg"
    /\ pc' = "terminated"
    /\ UNCHANGED <<websocket, sessions, connection, waited, cause, interrupt,
                   taskVars, regVars, preVars>>
    /\ UNCHANGED tokVars

\* time.sleep(10) in start() returns; `continue`.
sleep_after_negotiation ==
    /\ pc = "sleep_neg"
    /\ waited' = waited + NegotiationDelay
    /\ pc' = "negotiating"
    /\ UNCHANGED <<websocket, sessions, connection, cause, interrupt,
                   taskVars, regVars, preVars>>
    /\ UNCHANGED tokVars

NextSession == Cardinality({s \in SessionIds : sessions[s] # "none"}) + 1

\* `async with websockets.connect(uri) as websocket: self.websocket = websocket`
connect ==
    /\ pc = "connecting"
    /\ interrupt # "pending"
    /\ NextSession \in SessionIds
    /\ sessions' = [sessions EXCEPT ![NextSession] = "open"]
    /\ websocket' = NextSession
    /\ pc' = "connected"
    /\ UNCHANGED <<connection, waited, cause, interrupt, taskVars, regVars, preVars>>
    /\ UNCHANGED tokVars

\* websockets.connect raises (handshake refused, host unreachable).
connect_fails ==
    /\ pc = "connecting"
    /\ interrupt # "pending"
    /\ start_raises("unknown", tasks)
    /\ UNCHANGED <<websocket, connection, nframes, sent, regVars, preVars>>
    /\ UNCHANGED tokVars

\* json.loads(raw_message): fails on text that is not JSON.
json_loads(raw) == [raised |-> raw.form = "garbage", value |-> raw]

\* Body of `async for raw_message in websocket`: json.loads, then create_task.
receive(raw) ==
    /\ pc = "connected"
    /\ interrupt # "pending"
    /\ sessions[websocket] = "open"
    /\ nframes < MaxFrames
    /\ nframes' = nframes + 1
    /\ IF json_loads(raw).raised
       THEN start_raises("unknown", [tasks EXCEPT ![nframes + 1] =
                            [NoTask EXCEPT !.frame = raw, !.sess = websocket, !.pc = "undecoded"]])
       ELSE /\ tasks' = [tasks EXCEPT ![nframes + 1] =
                            [NoTask EXCEPT !.frame = json_loads(raw).value, !.sess = websocket,
                                           !.pc = "created"]]
            /\ UNCHANGED <<pc, cause, waited, sessions, interrupt>>
    /\ UNCHANGED <<websocket, connection, sent, regVars, preVars>>
    /\ UNCHANGED tokVars

\* The gateway closes the connection: with a close frame, or abruptly.
remote_close(how) ==
    /\ pc = "connected"
    /\ sessions[websocket] = "open"
    /\ sessions' = [sessions EXCEPT ![websocket] = how]
    /\ UNCHANGED <<pc, websocket, connection, waited, cause, interrupt,
                   taskVars, regVars, preVars>>
    /\ UNCHANGED tokVars

\* Mutant of loop_ends: a clean close is followed by the negotiation-failure sleep.
loop_ends_backoff ==
    /\ pc = "connected"
    /\ interrupt # "pending"
    /\ sessions[websocket] = "closed"
    /\ pc' = "sleep_neg"
    /\ cause' = "clean"
    /\ waited' = 0
    /\ UNCHANGED <<websocket, sessions, connection, interrupt, taskVars, regVars, preVars>>
    /\ UNCHANGED tokVars

\* The `async for` ends normally on a clean close; the while loop goes round.
loop_ends ==
    /\ pc = "connected"
    /\ interrupt # "pending"
    /\ sessions[websocket] = "closed"
    /\ pc' = "negotiating"
    /\ cause' = "clean"
    /\ waited' = 0
    /\ UNCHANGED <<websocket, sessions, connection, interrupt, taskVars, regVars, preVars>>
    /\ UNCHANGED tokVars

\* The `async for` raises ConnectionClosedError on an abrupt close.
loop_raises ==
    /\ pc = "connected"
    /\ interrupt # "pending"
    /\ sessions[websocket] = "aborted"
    /\ start_raises("network", tasks)
    /\ UNCHANGED <<websocket, connection, nframes, sent, regVars, preVars>>
    /\ UNCHANGED tokVars

\* start_forever: time.sleep(10) after a network exception returns; `continue`.
retry_after_network ==
    /\ pc = "sleep_net"
    /\ waited' = waited + NetworkDelay
    /\ pc' = "starting"
    /\ UNCHANGED <<websocket, sessions, connection, cause, interrupt,
                   taskVars, regVars, preVars>>
    /\ UNCHANGED tokVars

\* Mutant of retry_after_unknown: `break` in place of `continue`.
retry_after_unknown_breaks ==
    /\ pc = "sleep_unk"
    /\ pc' = "terminated"
    /\ UNCHANGED <<websocket, sessions, connection, waited, cause, interrupt,
                   taskVars, regVars, preVars>>
    /\ UNCHANGED tokVars

\* start_forever: time.sleep(3) after any other exception returns; `continue`.
retry_after_unknown ==
    /\ pc = "sleep_unk"
    /\ waited' = waited + UnknownDelay
    /\ pc' = "starting"
    /\ UNCHANGED <<websocket, sessions, connection, cause, interrupt,
                   taskVars, regVars, preVars>>
    /\ UNCHANGED tokVars

\* ---------------------------------------------------------- dispatch unit
\* A unit runs only while the main task is suspended at an await.
LoopFree == pc \in {"connecting", "connected"}

MessageId(f) == f

\* <Kind>Message.from_dict(json_message)
from_dict(msg) == [raised |-> ~msg.wellformed, value |-> msg]

\* Mutant of Resolve: a CALLBACK topic without a handler falls back to the event handler.
Resolve_fallback(msg) ==
    IF msg.type = SYSTEM_TYPE THEN SystemHandler
    ELSE IF msg.type = EVENT_TYPE THEN event_handler
    ELSE IF msg.type = CALLBACK_TYPE
    THEN IF callback_handler_map[msg.topic] = NoHandler THEN UserEventHandler
         ELSE callback_handler_map[msg.topic]
    ELSE NoHandler

\* The handler route_message resolves for a message, NoHandler when there is none.
Resolve(msg) ==
    IF msg.type = SYSTEM_TYPE THEN SystemHandler
    ELSE IF msg.type = EVENT_TYPE THEN event_handler
    ELSE IF msg.type = CALLBACK_TYPE THEN callback_handler_map[msg.topic]
    ELSE NoHandler

\* Mutant of RouteResult: every SYSTEM frame asks for the disconnect.
RouteResult_any_system(msg) ==
    IF msg.type = SYSTEM_TYPE THEN TAG_DISCONNECT ELSE ""

\* route_message's return value.
RouteResult(msg) ==
    IF msg.type = SYSTEM_TYPE /\ msg.topic = TOPIC_DISCONNECT THEN TAG_DISCONNECT ELSE ""

\* What a handler's raw_process can do with a message: return an acknowledgment,
\* return None, or raise.  The default EventHandler is a no-op.
Outcomes(h) == IF h = DefaultEventHandler THEN {"none"} ELSE {"ack", "none", "raise"}

\* The acknowledgment raw_process returns: its message id mirrors the request's (0 = None).
raw_process(f, outcome) == IF outcome = "ack" THEN MessageId(f) ELSE 0

Finish(t, fault) == [t EXCEPT !.pc = "done", !.fault = fault]

\* `await self.websocket.close()` of background_task, for unit t.
CloseBy(t) == [t EXCEPT !.pc = "done", !.closed = websocket]
ClosedSessions == [sessions EXCEPT ![websocket] = IF @ = "open" THEN "closed" ELSE @]

\* Mutant of except_Exception: the fault is not caught in the unit and unwinds start().
except_Exception_escapes(ts) ==
    /\ start_raises("unknown", ts)

\* `except Exception as e: self.logger.error(...)` of background_task: the
\* fault ends the unit (ts holds it finished) and goes no further.
except_Exception(ts) ==
    /\ tasks' = ts
    /\ UNCHANGED <<pc, cause, waited, interrupt, sessions>>

\* The unit goes on or ends without a fault; nothing but the unit changes.
Continue(ts) ==
    /\ tasks' = ts
    /\ UNCHANGED <<pc, cause, waited, interrupt, sessions>>

\* Mutant of background_task: `await self.background_task(json_message)` in the
\* receive loop: a unit starts only when no earlier unit is still in its handler.
background_task_after_previous(f) ==
    /\ LoopFree
    /\ tasks[f].pc = "created"
    /\ \A g \in FrameIds : tasks[g].pc # "handling"
    /\ LET t == tasks[f]
           msg == t.frame
           h == Resolve(msg) IN
       IF msg.form # "object" THEN except_Exception([tasks EXCEPT ![f] = Finish(t, TRUE)])
       ELSE IF msg.type \notin {SYSTEM_TYPE, EVENT_TYPE, CALLBACK_TYPE}
       THEN Continue([tasks EXCEPT ![f] = Finish(t, FALSE)])
       ELSE IF from_dict(msg).raised THEN except_Exception([tasks EXCEPT ![f] = Finish(t, TRUE)])
       ELSE IF h = NoHandler THEN Continue([tasks EXCEPT ![f] = Finish(t, FALSE)])
       ELSE Continue([tasks EXCEPT ![f] = [t EXCEPT !.pc = "handling", !.handler = h]])
    /\ UNCHANGED <<websocket, connection, nframes, sent, regVars, preVars>>
    /\ UNCHANGED tokVars

\* background_task starts: route_message up to its first await.
background_task(f) ==
    /\ LoopFree
    /\ tasks[f].pc = "created"
    /\ LET t == tasks[f]
           msg == t.frame
           h == Resolve(msg) IN
       IF msg.form # "object" THEN except_Exception([tasks EXCEPT ![f] = Finish(t, TRUE)])
       ELSE IF msg.type \notin {SYSTEM_TYPE, EVENT_TYPE, CALLBACK_TYPE}
       THEN Continue([tasks EXCEPT ![f] = Finish(t, FALSE)])
       ELSE IF from_dict(msg).raised THEN except_Exception([tasks EXCEPT ![f] = Finish(t, TRUE)])
       ELSE IF h = NoHandler THEN Continue([tasks EXCEPT ![f] = Finish(t, FALSE)])
       ELSE Continue([tasks EXCEPT ![f] = [t EXCEPT !.pc = "handling", !.handler = h]])
    /\ UNCHANGED <<websocket, connection, nframes, sent, regVars, preVars>>
    /\ UNCHANGED tokVars

\* Mutant of HasAck: whatever the handler returned is written back.
HasAck_always(ack) == TRUE

\* `if ack:`
HasAck(ack) == ack # 0

\* Mutant of send_ack: the frame written carries the id of the frame received last.
send_ack_latest(f, ack) == Append(sent, [mid |-> MessageId(nframes), frame |-> f, sess |-> websocket])

\* `await self.websocket.send(json.dumps(ack.to_dict()))`
send_ack(f, ack) == Append(sent, [mid |-> ack, frame |-> f, sess |-> websocket])

\* The handler's raw_process completes; route_message runs on to its next
\* await: the send when there is an ack, else the close or the end of the unit.
route_message(f, outcome) ==
    /\ LoopFree
    /\ tasks[f].pc = "handling"
    /\ outcome \in Outcomes(tasks[f].handler)
    /\ LET t == tasks[f]
           ack == raw_process(f, outcome)
           result == RouteResult(t.frame) IN
       IF outcome = "raise"
       THEN /\ except_Exception([tasks EXCEPT ![f] = Finish(t, TRUE)])
            /\ UNCHANGED sent
       ELSE IF HasAck(ack)
       THEN IF sessions[websocket] = "open"
            THEN /\ sent' = send_ack(f, ack)
                 /\ Continue([tasks EXCEPT ![f] =
                                 IF result = TAG_DISCONNECT
                                 THEN [t EXCEPT !.pc = "close", !.ack = ack, !.result = result]
                                 ELSE [Finish(t, FALSE) EXCEPT !.ack = ack, !.result = result]])
            ELSE /\ except_Exception([tasks EXCEPT ![f] =
                                         [Finish(t, TRUE) EXCEPT !.ack = ack, !.result = result]])
                 /\ UNCHANGED sent
       ELSE IF result = TAG_DISCONNECT
       THEN /\ tasks' = [tasks EXCEPT ![f] = [CloseBy(t) EXCEPT !.result = result]]
            /\ sessions' = ClosedSessions
            /\ UNCHANGED <<pc, cause, waited, interrupt, sent>>
       ELSE /\ Continue([tasks EXCEPT ![f] = [Finish(t, FALSE) EXCEPT !.result = result]])
            /\ UNCHANGED sent
    /\ UNCHANGED <<websocket, connection, nframes, regVars, preVars>>
    /\ UNCHANGED tokVars

\* The send has completed, route_message returned TAG_DISCONNECT:
\* background_task awaits self.websocket.close().
close_websocket(f) ==
    /\ LoopFree
    /\ tasks[f].pc = "close"
    /\ tasks' = [tasks EXCEPT ![f] = CloseBy(tasks[f])]
    /\ sessions' = ClosedSessions
    /\ UNCHANGED <<pc, websocket, connection, waited, cause, interrupt, nframes, sent,
                   regVars, preVars>>
    /\ UNCHANGED tokVars

\* ------------------------------------------------------------ stop request
\* KeyboardInterrupt reaches start_forever (or escapes its except clause):
\* the loop is left, the socket closed, pending units cancelled.
Interrupted ==
    /\ pc' = "terminated"
    /\ sessions' = ExitedSessions
    /\ tasks' = CancelAll(tasks)
    /\ interrupt' = "raised"

\* SIGINT.  Inside asyncio.run() the runtime either raises KeyboardInterrupt at
\* once, or (first interrupt of a run) cancels the main task, which takes
\* effect at the task's next await; in the blocking part of start() there is none.
stop_request ==
    /\ pc \notin {"idle", "terminated"}
    /\ \/ Interrupted
       \/ /\ pc \in {"negotiating", "opened", "sleep_neg"}
          /\ interrupt # "pending"
          /\ interrupt' = "pending"
          /\ UNCHANGED <<pc, sessions, tasks>>
    /\ UNCHANGED <<websocket, connection, waited, cause, nframes, sent, regVars, preVars>>
    /\ UNCHANGED tokVars

\* The pending cancellation is delivered at the await in websockets.connect;
\* asyncio.run() turns it into KeyboardInterrupt.
cancel_delivered ==
    /\ pc = "connecting"
    /\ interrupt = "pending"
    /\ Interrupted
    /\ UNCHANGED <<websocket, connection, waited, cause, nframes, sent, regVars, preVars>>
    /\ UNCHANGED tokVars

Next ==
    \/ register_all_event_handler
    \/ \E t \in CallbackTopics, h \in CallbackHandlers : register_callback_handler(t, h)
    \/ start_forever
    \/ start
    \/ negotiate
    \/ after_open_connection
    \/ sleep_after_negotiation
    \/ connect
    \/ connect_fails
    \/ \E raw \in RawFrames : receive(raw)
    \/ \E how \in {"closed", "aborted"} : remote_close(how)
    \/ loop_ends
    \/ loop_raises
    \/ retry_after_network
    \/ retry_after_unknown
    \/ \E f \in FrameIds : background_task(f)
    \/ \E f \in FrameIds, o \in {"ack", "none", "raise"} : route_message(f, o)
    \/ \E f \in FrameIds : close_websocket(f)
    \/ stop_request
    \/ cancel_delivered

Spec == Init /\ [][Next]_vars

\* The steps the program takes by itself once it can: time.sleep returns, a
\* blocking call returns and the code runs on, the event loop resumes a task
\* that is ready.  Frames, closures and interrupts come from outside.
FairSpec ==
    /\ Spec
    /\ WF_vars(start)
    /\ WF_vars(after_open_connection)
    /\ WF_vars(sleep_after_negotiation)
    /\ WF_vars(retry_after_network)
    /\ WF_vars(retry_after_unknown)
    /\ WF_vars(loop_ends)
    /\ WF_vars(loop_raises)
    /\ WF_vars(cancel_delivered)
    /\ \A f \in FrameIds : WF_vars(background_task(f)) /\ WF_vars(close_websocket(f))

\* ------------------------------------------------------------------ setup
\* The setup phase explored widely: the registry starts as some earlier run of
\* register_callback_handler calls left it, any topic can be given either
\* handler, the application may call pre_start() itself; the gateway then
\* delivers CALLBACK frames (no unit of such a frame reaches close_websocket).
SetupInit ==
    /\ pc = "idle"
    /\ websocket = 0
    /\ sessions = [s \in SessionIds |-> "none"]
    /\ tasks = [f \in FrameIds |-> NoTask]
    /\ nframes = 0
    /\ sent = <<>>
    /\ connection = NoConnection
    /\ waited = 0
    /\ cause = "start"
    /\ interrupt = "none"
    /\ callback_handler_map \in [Topics -> CallbackHandlers \cup {NoHandler}]
    /\ event_handler = DefaultEventHandler
    /\ is_event_required = FALSE
    /\ pre_started = FALSE
    /\ prestarts = [h \in AllHandlers |-> 0]
    /\ nregs = 0
    /\ now = 0
    /\ access_token = NoToken
    /\ nfetch = 0
    /\ token_call = NoCall

SetupNext ==
    \/ register_all_event_handler
    \/ \E t \in Topics, h \in RegistryHandlers : register_callback_handler(t, h)
    \/ pre_start
    \/ start_forever
    \/ start
    \/ negotiate
    \/ after_open_connection
    \/ sleep_after_negotiation
    \/ connect
    \/ connect_fails
    \/ \E raw \in CallbackFrames : receive(raw)
    \/ \E how \in {"closed", "aborted"} : remote_close(how)
    \/ loop_ends
    \/ loop_raises
    \/ retry_after_network
    \/ retry_after_unknown
    \/ \E f \in FrameIds : background_task(f)
    \/ \E f \in FrameIds, o \in {"ack", "none", "raise"} : route_message(f, o)
    \/ stop_request
    \/ cancel_delivered

SetupSpec == SetupInit /\ [][SetupNext]_vars

\* ------------------------------------------------------------- access token
\* The token functions share no state with the stream core; they are explored
\* by their own next-state relation.

\* Mutant of CacheValid: the cached token is still used at its expiry time.
CacheValid_inclusive(tok, t) == tok # NoToken /\ t <= tok.expireTime

\* `if self._access_token and now < self._access_token['expireTime']`
CacheValid(tok, t) == tok # NoToken /\ t < tok.expireTime

\* get_access_token() called at time t with cache tok, n tokens issued so far,
\* the endpoint answering resp after lat seconds: the cache it leaves, what
\* it returns (0 = None, -1 = an exception from response.json() or a missing
\* key), whether it went to the endpoint, and the time it returns at.
AccessToken(tok, t, n, resp, lat) ==
    IF CacheValid(tok, t)
    THEN [cache |-> tok, returned |-> tok.accessToken, fetched |-> FALSE, n |-> n, end |-> t]
    ELSE IF resp.kind = "http_error"
    THEN [cache |-> tok, returned |-> 0, fetched |-> TRUE, n |-> n, end |-> t + lat]
    ELSE IF resp.kind = "malformed"
    THEN [cache |-> tok, returned |-> -1, fetched |-> TRUE, n |-> n, end |-> t + lat]
    ELSE [cache |-> [accessToken |-> n + 1, expireIn |-> resp.expireIn,
                     expireTime |-> (t + lat) + resp.expireIn - ExpiryMargin,
                     fetched_at |-> t + lat],
          returned |-> n + 1, fetched |-> TRUE, n |-> n + 1, end |-> t + lat]

\* time.time() moves on between calls.
tick ==
    /\ now < MaxNow
    /\ now' = now + 1
    /\ UNCHANGED <<access_token, nfetch, token_call, streamVars>>

reset_access_token ==
    /\ access_token' = NoToken
    /\ token_call' = [NoCall EXCEPT !.op = "reset", !.at = now]
    /\ UNCHANGED <<now, nfetch, streamVars>>

get_access_token(resp, lat) ==
    /\ now + lat <= MaxNow
    /\ LET r == AccessToken(access_token, now, nfetch, resp, lat) IN
          /\ r.n <= MaxFetches
          /\ access_token' = r.cache
          /\ nfetch' = r.n
          /\ now' = r.end
          /\ token_call' = [NoCall EXCEPT !.op = "get", !.at = now, !.fetched = r.fetched,
                                          !.returned = r.returned]
    /\ UNCHANGED streamVars

\* upload_to_dingtalk(): get_access_token(), then the POST; a 401 resets the
\* cache before raise_for_status() turns the status into the None returned.
upload_to_dingtalk(resp, lat, status) ==
    /\ now + lat <= MaxNow
    /\ LET r == AccessToken(access_token, now, nfetch, resp, lat)
           posted == r.returned > 0 IN
          /\ r.n <= MaxFetches
          /\ access_token' = IF posted /\ status = 401 THEN NoToken ELSE r.cache
          /\ nfetch' = r.n
          /\ now' = r.end
          /\ token_call' = [op |-> "upload", at |-> now, fetched |-> r.fetched,
                            returned |-> r.returned, status |-> IF posted THEN status ELSE 0]
    /\ UNCHANGED streamVars

TokenNext ==
    \/ tick
    \/ reset_access_token
    \/ \E resp \in TokenResponses, lat \in Latencies : get_access_token(resp, lat)
    \/ \E resp \in TokenResponses, lat \in Latencies, status \in UploadStatuses :
          upload_to_dingtalk(resp, lat, status)

TokenSpec == Init /\ [][TokenNext]_vars

TypeOK ==
    /\ pc \in {"idle", "starting", "negotiating", "opened", "sleep_neg", "connecting", "connected",
               "sleep_net", "sleep_unk", "terminated"}
    /\ websocket \in 0..MaxSessions
    /\ nframes \in 0..MaxFrames
    /\ Len(sent) <= MaxFrames

\* ------------------------------------------------------------------ claims
Received(f) == tasks[f].pc # "none"
AcksOf(f) == {i \in 1..Len(sent) : sent[i].frame = f}
IsDisconnect(msg) ==
    msg.form = "object" /\ msg.wellformed /\ msg.type = SYSTEM_TYPE /\ msg.topic = TOPIC_DISCONNECT

\* C1: each frame causes at most one outbound ack, and every ack written
\* carries the message id of the frame whose dispatch unit wrote it.
C1_OneAckPerFrameSameId ==
    /\ \A f \in FrameIds : Cardinality(AcksOf(f)) <= 1
    /\ \A i \in 1..Len(sent) : Received(sent[i].frame) /\ sent[i].mid = MessageId(sent[i].frame)

\* C1 witness: two frames were acknowledged, the later frame first.
C1_Witness ==
    /\ Len(sent) = 2
    /\ sent[1].frame = 2 /\ sent[1].mid = MessageId(2)
    /\ sent[2].frame = 1 /\ sent[2].mid = MessageId(1)

\* C2 (as claimed): once the dispatch unit of a SYSTEM "disconnect" frame has
\* finished, the session the frame arrived on is closed, whatever the system
\* handler did.
C2_DisconnectAlwaysCloses ==
    \A f \in FrameIds :
        (IsDisconnect(tasks[f].frame) /\ tasks[f].pc = "done") => sessions[tasks[f].sess] # "open"

\* C3: a fault caught in a dispatch unit (the handler raised, or the ack could
\* not be written) changes nothing but that unit: the receive loop keeps its
\* position, every session keeps its state, sibling units are untouched.
C3_HandlerFaultIsolated ==
    [][\A f \in FrameIds :
          (tasks[f].pc = "handling" /\ tasks'[f].pc = "done" /\ tasks'[f].fault)
              => /\ pc' = pc
                 /\ sessions' = sessions
                 /\ \A g \in FrameIds \ {f} : tasks'[g] = tasks[g]]_vars

\* C3 witness: the handler of frame 1 raised, and frame 2, received on the same
\* still open session, was handled and acknowledged.
C3_Witness ==
    /\ tasks[1].pc = "done" /\ tasks[1].fault /\ tasks[1].handler # NoHandler /\ tasks[1].ack = 0
    /\ tasks[2].pc = "done" /\ ~tasks[2].fault /\ tasks[2].sess = tasks[1].sess
    /\ AcksOf(2) # {} /\ AcksOf(1) = {}
    /\ pc = "connected" /\ sessions[tasks[1].sess] = "open"

Undecodable(raw) == raw.form # "object" \/ ~raw.wellformed

\* C4 (as claimed): receiving a frame that cannot be decoded leaves the
\* receive loop where it is and the session as it is.
C4_DecodeFailureContained ==
    [][\A f \in FrameIds :
          (~Received(f) /\ tasks'[f].pc # "none" /\ Undecodable(tasks'[f].frame))
              => (pc' = pc /\ sessions' = sessions)]_vars

\* C5 (as claimed): open_connection never raises; it returns None on a
\* transport error, a non-2xx status or a malformed body, and a value with
\* endpoint and ticket otherwise.
C5_OpenConnectionNeverRaises ==
    pc = "opened" =>
        /\ ~connection.raised
        /\ connection.resp # "ok" => connection.value = "None"
        /\ connection.value # "None" => connection.value = "connection"

\* C6: a failed negotiation is followed by the 10-unit sleep and then by the
\* next negotiation, with no socket opened on the way and nothing but a stop
\* request ending the loop; a successful one goes on to the socket connect;
\* and the sleep always ends in the next negotiation (or a stop).
C6_NegotiationFailureRetries ==
    /\ [][/\ (pc = "opened" /\ connection.value = "None" /\ pc' \notin {pc, "terminated"})
               => (pc' = "sleep_neg" /\ sessions' = sessions /\ websocket' = websocket)
          /\ (pc = "sleep_neg" /\ pc' \notin {pc, "terminated"})
               => (pc' = "negotiating" /\ cause' = "negfail" /\ waited' = 10
                   /\ sessions' = sessions /\ websocket' = websocket)
          /\ (pc = "opened" /\ connection.value = "connection" /\ pc' \notin {pc, "terminated"})
               => pc' = "connecting"
          /\ (pc \in {"opened", "sleep_neg"} /\ pc' = "terminated") => interrupt' = "raised"]_vars
    /\ (pc = "sleep_neg") ~> (pc \in {"negotiating", "terminated"})

\* C6 witness: the Supervisor is about to negotiate again after the 10-unit wait.
C6_Witness == pc = "negotiating" /\ cause = "negfail" /\ waited = 10

\* C7: the Supervisor stops only on a stop request, and whenever a fault has
\* taken it out of negotiation or out of a session (it is in a backoff sleep or
\* restarting start()), it reaches NEGOTIATING again unless stopped.
C7_NeverGivesUp ==
    /\ [](pc = "terminated" => interrupt = "raised")
    /\ (pc \in {"sleep_neg", "sleep_net", "sleep_unk", "starting"})
          ~> (pc \in {"negotiating", "terminated"})

\* C7 witness: negotiating again after an uncategorized fault and its 3-unit backoff.
C7_Witness == pc = "negotiating" /\ cause = "unknown" /\ waited = 3 /\ nframes > 0

\* C8 (as claimed): a stop request ends start_forever, at once or at the
\* latest before another negotiation: while a stop request is pending the
\* Supervisor never moves on to NEGOTIATING.
C8_StopEndsRetrying ==
    [][/\ stop_request => (pc' = "terminated" \/ interrupt' = "pending")
       /\ (interrupt = "pending" /\ pc # "negotiating") => pc' # "negotiating"]_vars

UnroutedCallback(msg) ==
    /\ msg.form = "object" /\ msg.wellformed /\ msg.type = CALLBACK_TYPE
    /\ callback_handler_map[msg.topic] = NoHandler

\* C9: the unit of a CALLBACK frame whose topic has no registered handler
\* invokes no handler, writes no ack, ends without a fault and closes nothing.
C9_UnroutedCallbackDropped ==
    \A f \in FrameIds :
        (Received(f) /\ UnroutedCallback(tasks[f].frame)) =>
            /\ tasks[f].handler = NoHandler
            /\ tasks[f].ack = 0 /\ AcksOf(f) = {}
            /\ ~tasks[f].fault
            /\ tasks[f].closed = 0
            /\ tasks[f].pc \in {"created", "done", "cancelled"}

\* C9 witness: such a frame was dropped and its session is still open and receiving.
C9_Witness ==
    \E f \in FrameIds :
        /\ UnroutedCallback(tasks[f].frame) /\ tasks[f].pc = "done"
        /\ pc = "connected" /\ websocket = tasks[f].sess /\ sessions[websocket] = "open"

UnhandledEvent(msg) ==
    /\ msg.form = "object" /\ msg.wellformed /\ msg.type = EVENT_TYPE
    /\ ~is_event_required

\* C10: with no event handler registered, the unit of an EVENT frame goes to
\* the default handler, writes nothing, ends without a fault and closes nothing.
C10_DefaultEventHandlerSilent ==
    \A f \in FrameIds :
        (Received(f) /\ UnhandledEvent(tasks[f].frame)) =>
            /\ tasks[f].handler \in {NoHandler, DefaultEventHandler}
            /\ tasks[f].ack = 0 /\ AcksOf(f) = {}
            /\ ~tasks[f].fault
            /\ tasks[f].closed = 0

\* C10 witness: the default handler ran on an EVENT frame and the unit ended.
C10_Witness ==
    \E f \in FrameIds :
        /\ UnhandledEvent(tasks[f].frame) /\ tasks[f].pc = "done"
        /\ tasks[f].handler = DefaultEventHandler /\ sent = <<>>

\* A unit whose handler has been invoked and has not completed.
Stalled(f) == tasks[f].pc = "handling"

C13_UnitsTargetOwnSession ==
    /\ \A i \in 1..Len(sent) : sent[i].sess = tasks[sent[i].frame].sess
    /\ \A f \in FrameIds : tasks[f].closed \in {0, tasks[f].sess}

InFlight(f) == tasks[f].pc \in {"created", "handling", "close"}

\* C14 (as claimed): once the session has been closed (by a unit, or by the
\* remote end, cleanly or abruptly) the end of the receive loop cancels no unit
\* in flight (only a stop request does), and a unit whose session is closed
\* and whose handler then returns an ack fails in itself: nothing is written,
\* the Supervisor and the registry stay as they are.
C14_ClosureLeavesUnitsRunning ==
    [][\A f \in FrameIds :
          /\ (/\ pc = "connected" /\ sessions[websocket] # "open"
               /\ InFlight(f) /\ tasks'[f].pc = "cancelled")
                  => interrupt' = "raised"
          /\ (/\ tasks[f].pc = "handling" /\ tasks'[f].pc = "done" /\ tasks'[f].ack # 0
               /\ sessions[tasks[f].sess] # "open")
                  => /\ tasks'[f].fault /\ sent' = sent
                     /\ pc' = pc /\ sessions' = sessions
                     /\ callback_handler_map' = callback_handler_map
                     /\ event_handler' = event_handler]_vars

\* C15: a unit closes, or is about to close, the session only when its frame
\* is a SYSTEM frame with the "disconnect" topic; a step of any other unit
\* leaves every session as it is, whatever its handler did.
C15_OnlyDisconnectCloses ==
    /\ [](\A f \in FrameIds :
            (tasks[f].closed # 0 \/ tasks[f].pc = "close" \/ tasks[f].result = TAG_DISCONNECT)
                => IsDisconnect(tasks[f].frame))
    /\ [][\A f \in FrameIds :
             (/\ InFlight(f) /\ tasks'[f] # tasks[f] /\ tasks'[f].pc # "cancelled"
              /\ ~IsDisconnect(tasks[f].frame))
                 => sessions' = sessions]_vars

\* C15 witness: a SYSTEM "disconnect" unit closed its session after the units
\* of another frame, not a disconnect, had run its handler and closed nothing.
C15_Witness ==
    \E f, g \in FrameIds :
        /\ IsDisconnect(tasks[f].frame) /\ tasks[f].closed = tasks[f].sess
        /\ sessions[tasks[f].sess] = "closed"
        /\ ~IsDisconnect(tasks[g].frame) /\ tasks[g].handler # NoHandler
        /\ tasks[g].pc = "done" /\ tasks[g].closed = 0

\* C16: when a connected session has closed cleanly, the next move of the
\* Supervisor (short of a stop) is the negotiation itself, and it arrives
\* there having slept for nothing.
C16_DisconnectRenegotiatesAtOnce ==
    /\ []((pc = "negotiating" /\ cause = "clean") => waited = 0)
    /\ [][(pc = "connected" /\ sessions[websocket] = "closed" /\ pc' \notin {pc, "terminated"})
             => (pc' = "negotiating" /\ cause' = "clean" /\ waited' = 0)]_vars

\* C16 witness: a "disconnect" unit closed the current session and the
\* Supervisor is negotiating again with no wait behind it.
C16_Witness ==
    /\ pc = "negotiating" /\ cause = "clean" /\ waited = 0
    /\ \E f \in FrameIds : IsDisconnect(tasks[f].frame) /\ tasks[f].closed = websocket
                            /\ tasks[f].sess = websocket

\* C17: a connected session that ends by a fault goes to a backoff sleep, the
\* long one after an abrupt close and the short one after any other fault;
\* the sleep adds its length, 10 or 3, to the wait, and the Supervisor is back
\* at the negotiation with exactly that wait behind it.
C17_FaultBackoffByCategory ==
    /\ [](pc = "negotiating" => /\ (cause = "network" => waited = 10)
                                /\ (cause = "unknown" => waited = 3))
    /\ [][/\ (pc = "connected" /\ pc' \notin {pc, "terminated", "negotiating"})
               => (IF sessions[websocket] = "aborted"
                   THEN pc' = "sleep_net" /\ cause' = "network" /\ waited' = 0
                   ELSE pc' = "sleep_unk" /\ cause' = "unknown" /\ waited' = 0)
          /\ (pc = "connected" /\ pc' = "negotiating") => sessions[websocket] = "closed"
          /\ (pc \in {"sleep_net", "sleep_unk"} /\ pc' \notin {pc, "terminated"})
               => /\ pc' = "starting" /\ cause' = cause
                  /\ waited' = waited + (IF pc = "sleep_net" THEN 10 ELSE 3)
          /\ (pc = "starting" /\ pc' \notin {pc, "terminated"})
               => (pc' = "negotiating" /\ cause' = cause /\ waited' = waited)]_vars

\* C17 witness: negotiating again after an abrupt close and its 10-unit backoff.
C17_Witness ==
    /\ pc = "negotiating" /\ cause = "network" /\ waited = 10
    /\ websocket # 0 /\ sessions[websocket] = "closed"

NotClosed == {s \in SessionIds : sessions[s] \in {"open", "aborted"}}

\* C18: at most one session's socket is not closed, it is the current one and
\* the Supervisor is in that session; outside a session (negotiating, about to
\* connect, sleeping, restarting) every earlier socket has been closed.
C18_OneSessionAtATime ==
    /\ Cardinality(NotClosed) <= 1
    /\ pc = "connected" => NotClosed \subseteq {websocket}
    /\ pc # "connected" => NotClosed = {}

\* C18 witness: the second session is open, the first one closed.
C18_Witness ==
    /\ pc = "connected" /\ websocket = 2
    /\ sessions[1] = "closed" /\ sessions[2] = "open"

TokenCall == token_call' # token_call /\ token_call'.op \in {"get", "upload"}
Expired == access_token = NoToken \/ now >= access_token.fetched_at + access_token.expireIn - 300

\* C19: a call that needs the token and does not go to the endpoint returns
\* the cached token and is made before (fetch time + expireIn - 300); a call
\* made at or after that time, or with the cache reset, goes to the endpoint
\* and never returns a token issued earlier; a 401 on the upload and
\* reset_access_token both leave the cache empty.
C19_TokenCacheMarginAndReset ==
    [][/\ (TokenCall /\ ~token_call'.fetched)
            => (~Expired /\ token_call'.returned = access_token.accessToken)
       /\ (TokenCall /\ Expired)
            => (token_call'.fetched /\ token_call'.returned \notin 1..nfetch)
       /\ (TokenCall /\ token_call'.status = 401) => access_token' = NoToken
       /\ (token_call' # token_call /\ token_call'.op = "reset") => access_token' = NoToken]_vars

\* C19 witness: a second token was fetched (the first had expired or been
\* reset), and a call one second before its early expiry got it from the cache.
C19_Witness ==
    /\ nfetch = 2 /\ access_token.accessToken = 2
    /\ token_call.op = "get" /\ ~token_call.fetched /\ token_call.returned = 2
    /\ token_call.at = access_token.expireTime - 1
    /\ token_call.at = access_token.fetched_at

IsCallback(msg) == msg.form = "object" /\ msg.wellformed /\ msg.type = CALLBACK_TYPE

\* C12: a registration sets the handler of its topic and leaves every other
\* topic as it was, replacing whatever the topic had; nothing else changes the
\* registry; and the unit of a CALLBACK frame is routed to the handler the
\* registry holds for the frame's topic, or dropped when it holds none.
C12_LastRegistrationWins ==
    [][/\ \A t \in Topics, h \in RegistryHandlers :
             register_callback_handler(t, h)
                 => /\ callback_handler_map'[t] = h
                    /\ \A u \in Topics \ {t} : callback_handler_map'[u] = callback_handler_map[u]
       /\ callback_handler_map' # callback_handler_map
             => (pc = "idle" /\ nregs' = nregs + 1
                 /\ Cardinality({t \in Topics : callback_handler_map'[t] # callback_handler_map[t]}) = 1)
       /\ \A f \in FrameIds :
             (/\ IsCallback(tasks[f].frame) /\ tasks[f].pc = "created"
              /\ tasks'[f].pc \notin {"created", "cancelled"})
                 => /\ tasks'[f].handler = callback_handler_map[tasks[f].frame.topic]
                    /\ tasks'[f].pc = IF tasks'[f].handler = NoHandler THEN "done" ELSE "handling"]_vars

\* C12 witness: "chat" was registered again with the second handler while
\* "disconnect" kept the first, and a CALLBACK frame for "chat" went to the
\* second handler and one for "disconnect" to the first.
C12_Witness ==
    /\ nregs = 1
    /\ callback_handler_map["chat"] = "cb2" /\ callback_handler_map[TOPIC_DISCONNECT] = "cb1"
    /\ \E f, g \in FrameIds :
          /\ IsCallback(tasks[f].frame) /\ tasks[f].frame.topic = "chat"
          /\ tasks[f].handler = "cb2" /\ tasks[f].pc = "done" /\ AcksOf(f) # {}
          /\ IsCallback(tasks[g].frame) /\ tasks[g].frame.topic = TOPIC_DISCONNECT
          /\ tasks[g].handler = "cb1"

\* C20 (as claimed): no handler is ever pre-started twice, the flag never
\* goes back, the first pre_start() reaches exactly the event handler, the
\* system handler and the callback handlers registered by then, each once, and
\* no later call of pre_start() or restart of start() reaches a handler again.
C20_HandlerSetupOnce ==
    /\ [](\A h \in AllHandlers : prestarts[h] <= 1)
    /\ [](~pre_started => \A h \in AllHandlers : prestarts[h] = 0)
    /\ [][/\ pre_started => (pre_started' /\ prestarts' = prestarts)
          /\ (~pre_started /\ pre_started')
               => \A h \in AllHandlers :
                     prestarts'[h] = IF h \in PreStartTargets THEN 1 ELSE 0]_vars
====
